---- MODULE Spec2Model ----
(***************************************************************************)
(* Contact-form backend of Three Dimensions: the encrypted submission      *)
(* store (services/dataManagement.js), the contact route, the admin        *)
(* routes with their in-memory session map, and the cleanup timer.         *)
(*                                                                         *)
(* Node runs one thread: the code between two awaits is one atomic step.   *)
(* Every asynchronous call in flight is a task with a program counter, and *)
(* one action of the model is one such step.  The clock counts seconds     *)
(* (the code counts milliseconds; every duration of the code is a whole    *)
(* number of seconds).                                                     *)
(***************************************************************************)
EXTENDS Integers, Sequences, FiniteSets, TLC

VARIABLES
  file,         \* data/submissions.enc: [exists, text]
  audit,        \* data/audit.log, one entry per line
  now,          \* Date.now(), in seconds
  validTokens,  \* admin session map: token -> [createdAt, expiresAt]
  tasks,        \* the asynchronous calls in flight, by slot
  fresh,        \* [id, iv, token]: next unused uuid / nonce / session token
  seq,          \* number of file events so far (open-truncate, write)
  used,         \* [launch, clock, fault, req]: how much of each bound is spent
  hist,         \* per token, what the session contract says of it:
                \* [state, last] (history variable, the code has no such map)
  env,          \* the process's environment: [retentionDays, autoResponse,
                \* smtp] from process.env, [readFile, writeFile, appendFile]
                \* the outcome the file system gives each call
  made          \* the submissions saveSubmission has stamped so far, as
                \* stamped (history variable, the code keeps no such set)

vars == <<file, audit, now, validTokens, tasks, fresh, seq, used, hist, env, made>>

----------------------------------------------------------------------------
(* Bounds of the model *)

MaxTasks == 2
MaxLaunch == 2
MaxClock == 1
MaxFault == 1
MaxRequests == 3
MaxIdle == 2

----------------------------------------------------------------------------
(* Program constants *)

RETENTION_DAYS == 180
DaySeconds == 86400
sessionTimeout == 3600

----------------------------------------------------------------------------
(* Strings are sequences of characters. *)

UpperChars == <<"A", "B", "C", "X", "Y">>
LowerChars == <<"a", "b", "c", "x", "y">>

LowerChar(c) ==
  IF \E i \in 1..Len(UpperChars) : UpperChars[i] = c
  THEN LowerChars[CHOOSE i \in 1..Len(UpperChars) : UpperChars[i] = c]
  ELSE c

toLowerCase(s) == [i \in 1..Len(s) |-> LowerChar(s[i])]

RECURSIVE TrimStart(_)
TrimStart(s) ==
  IF s # <<>> /\ Head(s) = " " THEN TrimStart(Tail(s)) ELSE s

RECURSIVE TrimEnd(_)
TrimEnd(s) ==
  IF s # <<>> /\ s[Len(s)] = " " THEN TrimEnd(SubSeq(s, 1, Len(s) - 1)) ELSE s

trim(s) == TrimEnd(TrimStart(s))

substring(s, from, to) ==
  SubSeq(s, from + 1, IF to < Len(s) THEN to ELSE Len(s))

Redact(s) == substring(s, 0, 3) \o <<"*", "*", "*">>

Ax == <<"A", "@", "x", ".", "c", "o">>
ax == <<"a", "@", "x", ".", "c", "o">>
by == <<"b", "@", "y", ".", "c", "o">>
axPadded == <<" ", "a", "@", "x", ".", "c", "o", " ">>

cy == <<"c", "@", "y", ".", "c", "o">>

\* arguments of overlapping calls
StoredEmails == {Ax, by}
QueryEmails == {axPadded, by}
TargetIds == {2, 4}

\* arguments of calls made one at a time
AnyEmails == {Ax, ax, by}
AnyQueries == {ax, Ax, axPadded, by, cy}
AnyIds == {1, 2, 4, 9}

RECURSIVE SelectSeq2(_, _)
\* the subsequence of s at the indices in keep (Array.prototype.filter)
SelectSeq2(s, keep) ==
  IF s = <<>> THEN <<>>
  ELSE LET n == Len(s)
           init == SelectSeq2(SubSeq(s, 1, n - 1), keep)
       IN IF n \in keep THEN Append(init, s[n]) ELSE init

----------------------------------------------------------------------------
(* Values of a JSON body or a header: a type and, as characters, the text   *)

Undefined == [type |-> "undefined", v |-> <<>>]
Null == [type |-> "null", v |-> <<>>]
Str(s) == [type |-> "string", v |-> s]
Num(d) == [type |-> "number", v |-> <<d>>]
Bool(b) == [type |-> "boolean", v |-> <<b>>]
Arr(items) == [type |-> "array", v |-> items]

\* !x
Falsy(x) ==
  \/ x.type \in {"undefined", "null"}
  \/ x.type = "string" /\ x.v = <<>>
  \/ x.type = "number" /\ x.v = <<"0">>
  \/ x.type = "boolean" /\ x.v = <<"false">>

startsWith(s, prefix) ==
  Len(s) >= Len(prefix) /\ SubSeq(s, 1, Len(prefix)) = prefix

\* the body of a contact request
NoBody ==
  [company |-> Undefined, email |-> Undefined, interests |-> Undefined,
   message |-> Undefined, consent |-> Undefined, website |-> Undefined,
   budget |-> Undefined, deadline |-> Undefined]

----------------------------------------------------------------------------
(* Admin sessions *)

TokenDigits == <<"1", "2", "3", "4", "5", "6", "7", "8", "9">>

\* crypto.randomBytes(32).toString('hex'): never the same value twice
generateToken(n) == <<"t", TokenDigits[n]>>

Tokens == {generateToken(n) : n \in 1..Len(TokenDigits)}

NoSession == [live |-> FALSE, createdAt |-> 0, expiresAt |-> 0]

----------------------------------------------------------------------------
(* Submissions *)

\* hashIP(req.ip): the salted hash the contact route puts in the data
ipHash == <<"h", "1">>

NoSub == [id |-> 0, email |-> <<>>, ipHash |-> <<>>, createdAt |-> 0, expiresAt |-> 0]

RetentionSeconds == RETENTION_DAYS * DaySeconds

\* saveSubmission reads the clock twice: new Date() for createdAt, then
\* Date.now() for expiresAt
Stamp(id, email, created, read, days) ==
  [id |-> id, email |-> email, ipHash |-> ipHash, createdAt |-> created,
   expiresAt |-> read + days * DaySeconds]

----------------------------------------------------------------------------
(* config.js and the file system *)

DigitSeq == <<"0", "1", "2", "3", "4", "5", "6", "7", "8", "9">>

DigitValue(c) == (CHOOSE i \in 1..Len(DigitSeq) : DigitSeq[i] = c) - 1

IsDigit(c) == \E i \in 1..Len(DigitSeq) : DigitSeq[i] = c

RECURSIVE DigitPrefix(_, _)
\* the number made by the leading digits of str, after acc
DigitPrefix(str, acc) ==
  IF str = <<>> \/ ~IsDigit(Head(str)) THEN acc
  ELSE DigitPrefix(Tail(str), acc * 10 + DigitValue(Head(str)))

\* parseInt(x, 10): blanks skipped, a sign, then the leading digits; NaN when
\* there is none (and for undefined)
parseInt(x) ==
  LET str == TrimStart(x.v)
      signed == str # <<>> /\ Head(str) \in {"-", "+"}
      body == IF signed THEN Tail(str) ELSE str
  IN IF x.type # "string" \/ body = <<>> \/ ~IsDigit(Head(body))
     THEN [nan |-> TRUE, n |-> 0]
     ELSE [nan |-> FALSE,
           n |-> IF signed /\ Head(str) = "-"
                 THEN 0 - DigitPrefix(body, 0) ELSE DigitPrefix(body, 0)]

\* config.dataStorage.retentionDays: parseInt(RETENTION_DAYS, 10) || 180
retentionDays(x) ==
  IF parseInt(x).nan \/ parseInt(x).n = 0 THEN RETENTION_DAYS ELSE parseInt(x).n

\* the environment with RETENTION_DAYS set to x (Undefined: not set), nothing
\* else set, and a file system that does as it is asked
EnvWith(x) ==
  [RETENTION_DAYS |-> x, retentionDays |-> retentionDays(x), autoResponse |-> FALSE,
   smtp |-> FALSE, readFile |-> "ok", writeFile |-> "ok", appendFile |-> "ok"]

DefaultEnv == EnvWith(Undefined)

----------------------------------------------------------------------------
(* AES-256-GCM, symbolically: a ciphertext block and the tag name the key  *)
(* and nonce they were made with; decryption under another key, or of      *)
(* data the tag was not computed over, fails.                              *)

getEncryptionKey == "k1"
OtherKey == "k0"

\* JSON.stringify(data) of a list of submissions: per submission its
\* members, name and value, in the order of the object's keys
Keys == <<"id", "email", "ipHash", "createdAt", "expiresAt">>

stringifyList(data) ==
  [i \in 1..Len(data) |->
     [j \in 1..Len(Keys) |-> [name |-> Keys[j], value |-> data[i][Keys[j]]]]]

\* JSON.parse(decrypted): per object the record of its members
parseList(text) ==
  [i \in 1..Len(text) |->
     [k \in {text[i][j].name : j \in 1..Len(text[i])} |->
        (CHOOSE m \in {text[i][j] : j \in 1..Len(text[i])} : m.name = k).value]]

EncryptWith(key, data, iv) ==
  LET text == stringifyList(data)
  IN [iv |-> iv,
      authTag |-> [key |-> key, iv |-> iv, plain |-> text],
      data |-> [i \in 1..Len(text) |-> [key |-> key, iv |-> iv, plain |-> text[i]]]]

\* encrypt under a key other than the one decrypt derives
encryptOtherKey(data, iv) == EncryptWith(OtherKey, data, iv)

encrypt(data, iv) == EncryptWith(getEncryptionKey, data, iv)

Failed == [ok |-> FALSE, list |-> <<>>]

decrypt(encryptedObj) ==
  LET key == getEncryptionKey
      plain == [i \in 1..Len(encryptedObj.data) |-> encryptedObj.data[i].plain]
      keyed == \A i \in 1..Len(encryptedObj.data) :
                  /\ encryptedObj.data[i].key = key
                  /\ encryptedObj.data[i].iv = encryptedObj.iv
      tagged == encryptedObj.authTag = [key |-> key, iv |-> encryptedObj.iv, plain |-> plain]
  IN IF keyed /\ tagged THEN [ok |-> TRUE, list |-> parseList(plain)] ELSE Failed

(* The file's text is the envelope's JSON: iv, authTag, the data (one cell *)
(* per encrypted submission, so a longer list makes a longer file) and the *)
(* closing brace.                                                          *)

Cell(t, key, iv, plain) == [t |-> t, key |-> key, iv |-> iv, plain |-> plain]

stringify(envelope) ==
  <<Cell("iv", "", envelope.iv, <<>>),
    Cell("authTag", envelope.authTag.key, envelope.authTag.iv, envelope.authTag.plain)>>
  \o [i \in 1..Len(envelope.data) |->
        Cell("data", envelope.data[i].key, envelope.data[i].iv, <<envelope.data[i].plain>>)]
  \o <<Cell("end", "", 0, <<>>)>>

Parseable(text) ==
  /\ Len(text) >= 3
  /\ text[1].t = "iv"
  /\ text[2].t = "authTag"
  /\ text[Len(text)].t = "end"
  /\ \A i \in 3..(Len(text) - 1) : text[i].t = "data"

parse(text) ==
  [iv |-> text[1].iv,
   authTag |-> [key |-> text[2].key, iv |-> text[2].iv, plain |-> text[2].plain],
   data |-> [i \in 1..(Len(text) - 3) |->
               [key |-> text[i + 2].key, iv |-> text[i + 2].iv,
                plain |-> text[i + 2].plain[1]]]]

Absent == [exists |-> FALSE, text |-> <<>>]

\* readSubmissions taking every failure for an empty store
readSubmissionsLenient(f) ==
  IF ~f.exists THEN [ok |-> TRUE, list |-> <<>>]
  ELSE IF ~Parseable(f.text) THEN [ok |-> TRUE, list |-> <<>>]
  ELSE IF decrypt(parse(f.text)).ok THEN decrypt(parse(f.text))
  ELSE [ok |-> TRUE, list |-> <<>>]

\* readSubmissions: ENOENT is the empty list; a JSON or decryption error throws
readSubmissions(f) ==
  IF ~f.exists THEN [ok |-> TRUE, list |-> <<>>]
  ELSE IF ~Parseable(f.text) THEN Failed
  ELSE decrypt(parse(f.text))

\* fs.writeFile opens with O_TRUNC and then writes from offset 0 of its own
\* descriptor: what another writer put beyond the new text's end stays.
Truncated == [exists |-> TRUE, text |-> <<>>]

WriteAt0(f, text) ==
  [exists |-> TRUE,
   text |-> text \o SubSeq(f.text, Len(text) + 1, Len(f.text))]

----------------------------------------------------------------------------
(* Tasks: one per asynchronous call in flight *)

Slots == 1..MaxTasks

NoRet == [threw |-> FALSE, n |-> 0, list |-> <<>>]

IdleTask ==
  [route |-> "none", op |-> "idle", pc |-> "idle",
   id |-> 0, email |-> <<>>, sub |-> NoSub,
   snap |-> <<>>, out |-> <<>>, iv |-> 0,
   ret |-> NoRet, status |-> 0, note |-> "",
   hdr |-> Undefined, pw |-> Undefined, body |-> NoBody, token |-> <<>>,
   mail |-> <<>>, logged |-> 0, lost |-> 0, again |-> FALSE,
   auth |-> FALSE, due |-> FALSE, gone |-> FALSE,
   uuid |-> <<>>, shortId |-> <<>>,
   saw |-> "", at |-> 0, rdAt |-> -1, opAt |-> -1, wrAt |-> -1]

Free(s) == tasks[s].pc \in {"idle", "done"}

\* a new call takes the first free slot
FirstFree(s) == Free(s) /\ \A r \in Slots : r < s => ~Free(r)

\* an audit line {timestamp, action, details}, without its timestamp
Entry(action, id, email, count) ==
  [action |-> action, id |-> id, email |-> email, count |-> count]

\* the call settles: a route handler awaiting it continues, any other caller
\* (the timer, a script) is done with it
Settled(t) == IF t.route = "none" THEN "done" ELSE "ret"

\* an error thrown inside the data-management call: cleanupExpiredData catches
\* it and returns 0, every other function rejects
\* cleanupExpiredData without its try/catch: the error leaves the call
ThrowUncaught(t) ==
  [t EXCEPT !.pc = Settled(t), !.ret = [threw |-> TRUE, n |-> 0, list |-> <<>>]]

\* every call catching its error and returning as if nothing had failed
ThrowSwallowed(t) ==
  [t EXCEPT !.pc = Settled(t), !.ret = [threw |-> FALSE, n |-> 0, list |-> <<>>]]

Throw(t) ==
  IF t.op = "cleanup"
  THEN [t EXCEPT !.pc = Settled(t), !.ret = NoRet]
  ELSE [t EXCEPT !.pc = Settled(t), !.ret = [threw |-> TRUE, n |-> 0, list |-> <<>>]]

\* saveSubmission putting the new submission first (unshift for push)
saveSubmissionUnshift(t, submissions) ==
  [t EXCEPT !.out = <<t.sub>> \o submissions, !.pc = "open",
            !.ret = [threw |-> FALSE, n |-> t.sub.id, list |-> <<>>]]

\* saveSubmission, after readSubmissions resolved
saveSubmission(t, submissions) ==
  [t EXCEPT !.out = Append(submissions, t.sub), !.pc = "open",
            !.ret = [threw |-> FALSE, n |-> t.sub.id, list |-> <<>>]]

\* cleanupExpiredData rewriting the store whether or not anything expired
cleanupExpiredDataAlwaysWrites(t, submissions, clock) ==
  LET keep == {i \in 1..Len(submissions) : submissions[i].expiresAt > clock}
      validSubmissions == SelectSeq2(submissions, keep)
      expiredCount == Len(submissions) - Len(validSubmissions)
      r == [threw |-> FALSE, n |-> expiredCount, list |-> <<>>]
  IN [t EXCEPT !.out = validSubmissions, !.pc = "open", !.ret = r]

\* cleanupExpiredData keeping what expires at this very moment (>= for >)
cleanupExpiredDataInclusive(t, submissions, clock) ==
  LET keep == {i \in 1..Len(submissions) : submissions[i].expiresAt >= clock}
      validSubmissions == SelectSeq2(submissions, keep)
      expiredCount == Len(submissions) - Len(validSubmissions)
      r == [threw |-> FALSE, n |-> expiredCount, list |-> <<>>]
  IN IF expiredCount > 0
     THEN [t EXCEPT !.out = validSubmissions, !.pc = "open", !.ret = r]
     ELSE [t EXCEPT !.pc = Settled(t), !.ret = r]

\* cleanupExpiredData, after readSubmissions resolved
cleanupExpiredData(t, submissions, clock) ==
  LET keep == {i \in 1..Len(submissions) : submissions[i].expiresAt > clock}
      validSubmissions == SelectSeq2(submissions, keep)
      expiredCount == Len(submissions) - Len(validSubmissions)
      r == [threw |-> FALSE, n |-> expiredCount, list |-> <<>>]
  IN IF expiredCount > 0
     THEN [t EXCEPT !.out = validSubmissions, !.pc = "open", !.ret = r]
     ELSE [t EXCEPT !.pc = Settled(t), !.ret = r]

\* getAllSubmissions, after readSubmissions resolved
getAllSubmissions(t, submissions) ==
  [t EXCEPT !.pc = "audit",
            !.ret = [threw |-> FALSE, n |-> 0, list |-> submissions]]

\* deleteSubmission splicing out the last entry instead of the one found
deleteSubmissionLast(t, submissions) ==
  LET hits == {i \in 1..Len(submissions) : submissions[i].id = t.id}
  IN IF hits = {}
     THEN [t EXCEPT !.pc = Settled(t), !.ret = NoRet]
     ELSE [t EXCEPT !.out = SubSeq(submissions, 1, Len(submissions) - 1),
                    !.pc = "open",
                    !.ret = [threw |-> FALSE, n |-> 1, list |-> <<>>]]

\* deleteSubmission writing the list back also when the id is not in it
deleteSubmissionAlwaysWrites(t, submissions) ==
  LET hits == {i \in 1..Len(submissions) : submissions[i].id = t.id}
  IN IF hits = {}
     THEN [t EXCEPT !.out = submissions, !.pc = "open", !.ret = NoRet]
     ELSE LET index == CHOOSE i \in hits : \A j \in hits : i <= j
          IN [t EXCEPT !.out = SelectSeq2(submissions, (1..Len(submissions)) \ {index}),
                       !.pc = "open",
                       !.ret = [threw |-> FALSE, n |-> 1, list |-> <<>>]]

\* deleteSubmission, after readSubmissions resolved; n = 1 is true, 0 is false
deleteSubmission(t, submissions) ==
  LET hits == {i \in 1..Len(submissions) : submissions[i].id = t.id}
  IN IF hits = {}
     THEN [t EXCEPT !.pc = Settled(t), !.ret = NoRet]
     ELSE LET index == CHOOSE i \in hits : \A j \in hits : i <= j
          IN [t EXCEPT !.out = SelectSeq2(submissions, (1..Len(submissions)) \ {index}),
                       !.pc = "open",
                       !.ret = [threw |-> FALSE, n |-> 1, list |-> <<>>]]

\* deleteByEmail blanking the email of the matching submissions instead of
\* removing them
deleteByEmailBlanking(t, submissions) ==
  LET normalizedEmail == trim(toLowerCase(t.email))
      hits == {i \in 1..Len(submissions) :
                 toLowerCase(submissions[i].email) = normalizedEmail}
      remaining == [i \in 1..Len(submissions) |->
                      IF i \in hits THEN [submissions[i] EXCEPT !.email = <<>>]
                      ELSE submissions[i]]
      r == [threw |-> FALSE, n |-> Cardinality(hits), list |-> <<>>]
  IN IF hits # {}
     THEN [t EXCEPT !.out = remaining, !.pc = "open", !.ret = r]
     ELSE [t EXCEPT !.pc = Settled(t), !.ret = r]

\* deleteByEmail comparing the stored email as it is (no toLowerCase)
deleteByEmailCaseSensitive(t, submissions) ==
  LET normalizedEmail == trim(toLowerCase(t.email))
      keep == {i \in 1..Len(submissions) : submissions[i].email # normalizedEmail}
      remaining == SelectSeq2(submissions, keep)
      deletedCount == Len(submissions) - Len(remaining)
      r == [threw |-> FALSE, n |-> deletedCount, list |-> <<>>]
  IN IF deletedCount > 0
     THEN [t EXCEPT !.out = remaining, !.pc = "open", !.ret = r]
     ELSE [t EXCEPT !.pc = Settled(t), !.ret = r]

\* deleteByEmail, after readSubmissions resolved
deleteByEmail(t, submissions) ==
  LET normalizedEmail == trim(toLowerCase(t.email))
      keep == {i \in 1..Len(submissions) :
                 toLowerCase(submissions[i].email) # normalizedEmail}
      remaining == SelectSeq2(submissions, keep)
      deletedCount == Len(submissions) - Len(remaining)
      r == [threw |-> FALSE, n |-> deletedCount, list |-> <<>>]
  IN IF deletedCount > 0
     THEN [t EXCEPT !.out = remaining, !.pc = "open", !.ret = r]
     ELSE [t EXCEPT !.pc = Settled(t), !.ret = r]

\* the record exportByEmail returns for a stored submission
Exported(x) == [id |-> x.id, email |-> x.email, submittedAt |-> x.createdAt]

\* exportByEmail comparing the stored email as it is (no toLowerCase)
exportByEmailCaseSensitive(t, submissions) ==
  LET normalizedEmail == trim(toLowerCase(t.email))
      keep == {i \in 1..Len(submissions) : submissions[i].email = normalizedEmail}
      userSubmissions == SelectSeq2(submissions, keep)
  IN [t EXCEPT !.pc = "audit",
               !.ret = [threw |-> FALSE, n |-> Len(userSubmissions),
                        list |-> [i \in 1..Len(userSubmissions) |->
                                    Exported(userSubmissions[i])]]]

\* exportByEmail, after readSubmissions resolved; the list is mapped to the
\* exported records when the call returns
exportByEmail(t, submissions) ==
  LET normalizedEmail == trim(toLowerCase(t.email))
      keep == {i \in 1..Len(submissions) :
                 toLowerCase(submissions[i].email) = normalizedEmail}
      userSubmissions == SelectSeq2(submissions, keep)
  IN [t EXCEPT !.pc = "audit",
               !.ret = [threw |-> FALSE, n |-> Len(userSubmissions),
                        list |-> [i \in 1..Len(userSubmissions) |->
                                    Exported(userSubmissions[i])]]]

\* the synchronous continuation of `await readSubmissions()`
AfterRead(t, r, clock) ==
  IF ~r.ok THEN Throw(t)
  ELSE CASE t.op = "save" -> saveSubmission(t, r.list)
         [] t.op = "cleanup" -> cleanupExpiredData(t, r.list, clock)
         [] t.op = "getAll" -> getAllSubmissions(t, r.list)
         [] t.op = "deleteById" -> deleteSubmission(t, r.list)
         [] t.op = "deleteByEmail" -> deleteByEmail(t, r.list)
         [] t.op = "exportByEmail" -> exportByEmail(t, r.list)

\* what the read met: no file, a good envelope, text that is no JSON, or an
\* envelope that does not decrypt under the configured key
Saw(f) ==
  IF ~f.exists THEN "absent"
  ELSE IF ~Parseable(f.text) THEN "garbled"
  ELSE IF decrypt(parse(f.text)).ok THEN "valid" ELSE "forged"

\* the line logAudit appends for the call
AuditLine(t) ==
  CASE t.op = "save" -> Entry("SUBMISSION_CREATED", t.sub.id, Redact(t.sub.email), 0)
    [] t.op = "cleanup" -> Entry("DATA_CLEANUP", 0, <<>>, t.ret.n)
    [] t.op = "getAll" -> Entry("DATA_ACCESS", 0, <<>>, 0)
    [] t.op = "deleteById" -> Entry("SUBMISSION_DELETED", t.id, <<>>, 0)
    [] t.op = "deleteByEmail" ->
         Entry("SUBMISSIONS_DELETED_BY_EMAIL", 0, Redact(trim(toLowerCase(t.email))), t.ret.n)
    [] t.op = "exportByEmail" ->
         Entry("DATA_EXPORT", 0, Redact(trim(toLowerCase(t.email))), t.ret.n)

----------------------------------------------------------------------------
(* Steps of a data-management call *)

Call(route, op, id, email, sub, note) ==
  [IdleTask EXCEPT !.route = route, !.op = op, !.pc = "read",
                   !.id = id, !.email = email, !.sub = sub, !.note = note]

Launch(s, t) ==
  /\ used.launch < MaxLaunch
  /\ FirstFree(s)
  /\ tasks' = [tasks EXCEPT ![s] = t]
  /\ used' = [used EXCEPT !.launch = @ + 1]

\* await fs.readFile, JSON.parse, decrypt and the code up to the next await;
\* a readFile error other than ENOENT is thrown on
StepRead(s) ==
  LET r == IF env.readFile = "ok" THEN readSubmissions(file) ELSE Failed
  IN /\ tasks[s].pc = "read"
     /\ tasks' = [tasks EXCEPT ![s] =
          [AfterRead(tasks[s], r, now)
             EXCEPT !.snap = r.list, !.at = now, !.rdAt = seq,
                    !.saw = IF env.readFile = "ok" THEN Saw(file) ELSE "ioerror"]]
     /\ UNCHANGED <<env, made, file, audit, now, validTokens, hist, fresh, seq, used>>

\* writeSubmissions: encrypt under a fresh nonce, fs.writeFile opens (O_TRUNC)
\* unless the open is refused
StepOpen(s) ==
  /\ tasks[s].pc = "open"
  /\ fresh' = [fresh EXCEPT !.iv = @ + 1]
  /\ IF env.writeFile = "EACCES"
     THEN /\ tasks' = [tasks EXCEPT ![s] = [Throw(tasks[s]) EXCEPT !.iv = fresh.iv]]
          /\ UNCHANGED <<file, seq>>
     ELSE /\ file' = Truncated
          /\ seq' = seq + 1
          /\ tasks' = [tasks EXCEPT ![s].pc = "write", ![s].iv = fresh.iv,
                                    ![s].opAt = seq + 1]
  /\ UNCHANGED <<env, made, audit, now, validTokens, hist, used>>

\* fs.writeFile writes the text and closes, unless the device is full
StepWrite(s) ==
  /\ tasks[s].pc = "write"
  /\ IF env.writeFile = "ENOSPC"
     THEN /\ tasks' = [tasks EXCEPT ![s] = Throw(tasks[s])]
          /\ UNCHANGED <<file, seq>>
     ELSE /\ file' = WriteAt0(file, stringify(encrypt(tasks[s].out, tasks[s].iv)))
          /\ seq' = seq + 1
          /\ tasks' = [tasks EXCEPT ![s].pc = "audit", ![s].wrAt = seq + 1]
  /\ UNCHANGED <<env, made, audit, now, validTokens, hist, fresh, used>>

\* logAudit writing the log with fs.writeFile instead: the line replaces the log
appendFileRewriting(log, line) == IF env.appendFile = "ok" THEN <<line>> ELSE log

\* fs.appendFile in logAudit's try block: the line is added, or the error is
\* caught and printed and the log stays as it was
appendFile(log, line) == IF env.appendFile = "ok" THEN Append(log, line) ELSE log

\* the call's own count of the lines it appended and of those it lost
Counted(t) ==
  IF env.appendFile = "ok" THEN [t EXCEPT !.logged = @ + 1]
  ELSE [t EXCEPT !.lost = @ + 1]

\* logAudit at the end of a data-management call
logAudit(s) ==
  /\ tasks[s].pc = "audit"
  /\ audit' = appendFile(audit, AuditLine(tasks[s]))
  /\ tasks' = [tasks EXCEPT ![s] = [Counted(tasks[s]) EXCEPT !.pc = Settled(tasks[s])]]
  /\ UNCHANGED <<env, made, file, now, validTokens, hist, fresh, seq, used>>

----------------------------------------------------------------------------
(* Direct callers of the data-management service *)

\* skews: by how much the clock may move between the two reads of the stamp
CallSaveSkewed(s, emails, skews) ==
  \E e \in emails, d \in skews :
    /\ Launch(s, Call("none", "save", 0, e,
                       Stamp(fresh.id, e, now, now + d, env.retentionDays), ""))
    /\ fresh' = [fresh EXCEPT !.id = @ + 1]
    /\ made' = made \cup {Stamp(fresh.id, e, now, now + d, env.retentionDays)}
    /\ UNCHANGED <<env, file, audit, now, validTokens, hist, seq>>

CallSave(s, emails) ==
  \E e \in emails :
    /\ Launch(s, Call("none", "save", 0, e,
                       Stamp(fresh.id, e, now, now, env.retentionDays), ""))
    /\ fresh' = [fresh EXCEPT !.id = @ + 1]
    /\ made' = made \cup {Stamp(fresh.id, e, now, now, env.retentionDays)}
    /\ UNCHANGED <<env, file, audit, now, validTokens, hist, seq>>

CallDeleteSubmission(s, ids) ==
  \E id \in ids :
    /\ Launch(s, Call("none", "deleteById", id, <<>>, NoSub, ""))
    /\ UNCHANGED <<env, made, file, audit, now, validTokens, hist, fresh, seq>>

CallDeleteByEmail(s, emails) ==
  \E e \in emails :
    /\ Launch(s, Call("none", "deleteByEmail", 0, e, NoSub, ""))
    /\ UNCHANGED <<env, made, file, audit, now, validTokens, hist, fresh, seq>>

CallExportByEmail(s, emails) ==
  \E e \in emails :
    /\ Launch(s, Call("none", "exportByEmail", 0, e, NoSub, ""))
    /\ UNCHANGED <<env, made, file, audit, now, validTokens, hist, fresh, seq>>

CallGetAll(s) ==
  /\ Launch(s, Call("none", "getAll", 0, <<>>, NoSub, ""))
  /\ UNCHANGED <<env, made, file, audit, now, validTokens, hist, fresh, seq>>

\* the slot's last call was a cleanup that ran to its end at this very time,
\* and the file has seen no event since that call's last one
JustCleaned(t) ==
  /\ t.op = "cleanup" /\ t.pc = "done" /\ t.at = now
  /\ seq = IF t.wrAt >= 0 THEN t.wrAt ELSE t.rdAt

\* server.js: at startup and from setInterval
CallCleanup(s) ==
  /\ Launch(s, [Call("none", "cleanup", 0, <<>>, NoSub, "")
                  EXCEPT !.again = JustCleaned(tasks[s])])
  /\ UNCHANGED <<env, made, file, audit, now, validTokens, hist, fresh, seq>>

\* time passes between calls (a call takes milliseconds, a step is far longer)
Tick(steps, most) ==
  \E d \in steps :
    /\ used.clock < most
    /\ \A s \in Slots : Free(s)
    /\ now' = now + d
    /\ used' = [used EXCEPT !.clock = @ + 1]
    /\ UNCHANGED <<env, made, file, audit, validTokens, hist, tasks, fresh, seq>>

----------------------------------------------------------------------------
(* The store under concurrent calls *)

\* a store left by an earlier run: created 200 days ago, and 10 days ago twice
Seeded ==
  <<Stamp(1, Ax, 0 - 200 * DaySeconds, 0 - 200 * DaySeconds, RETENTION_DAYS),
    Stamp(2, ax, 0 - 10 * DaySeconds, 0 - 10 * DaySeconds, RETENTION_DAYS),
    Stamp(3, by, 0 - 10 * DaySeconds, 0 - 10 * DaySeconds, RETENTION_DAYS)>>

SeededFile == [exists |-> TRUE, text |-> stringify(encrypt(Seeded, 1))]

InitCommon ==
  /\ audit = <<>>
  /\ made = {}
  /\ now = 0
  /\ validTokens = [k \in Tokens |-> NoSession]
  /\ hist = [k \in Tokens |-> [state |-> "none", last |-> 0]]
  /\ tasks = [s \in Slots |-> IdleTask]
  /\ seq = 0
  /\ used = [launch |-> 0, clock |-> 0, fault |-> 0, req |-> 0]

Init ==
  /\ InitCommon
  /\ env = DefaultEnv
  /\ \/ file = Absent /\ fresh = [id |-> 1, iv |-> 1, token |-> 1]
     \/ file = SeededFile /\ fresh = [id |-> 4, iv |-> 2, token |-> 1]

StoreDays == {180 * DaySeconds}

Steps(s) ==
  \/ StepRead(s)
  \/ StepOpen(s)
  \/ StepWrite(s)
  \/ logAudit(s)

Next ==
  \/ \E s \in Slots :
       \/ CallSave(s, StoredEmails)
       \/ CallDeleteSubmission(s, TargetIds)
       \/ CallDeleteByEmail(s, QueryEmails)
       \/ CallCleanup(s)
       \/ Steps(s)
  \/ Tick(StoreDays, MaxClock)

Spec == Init /\ [][Next]_vars

----------------------------------------------------------------------------
(* The store under calls made one at a time, with more arguments *)

Quiet == \A s \in Slots : Free(s)

NextSeq ==
  \/ \E s \in Slots :
       \/ Quiet /\ CallSave(s, AnyEmails)
       \/ Quiet /\ CallDeleteSubmission(s, AnyIds)
       \/ Quiet /\ CallDeleteByEmail(s, AnyQueries)
       \/ Quiet /\ CallExportByEmail(s, AnyQueries)
       \/ Quiet /\ CallGetAll(s)
       \/ Quiet /\ CallCleanup(s)
       \/ Steps(s)
  \/ Tick(StoreDays, MaxClock)

SpecSeq == Init /\ [][NextSeq]_vars

----------------------------------------------------------------------------
(* routes/admin.js *)

AdminPassword == <<"p", "w">>

\* PBKDF2 of a string; crypto.pbkdf2Sync throws a TypeError for a password
\* that is no string (a JSON number, boolean, array or object)
hashPassword(password) ==
  IF password.type = "string"
  THEN [threw |-> FALSE, hex |-> <<"pbkdf2">> \o password.v]
  ELSE [threw |-> TRUE, hex |-> <<>>]

verifyPassword(inputPassword) ==
  LET inputHash == hashPassword(inputPassword)
      configHash == hashPassword(Str(AdminPassword))
  IN [threw |-> inputHash.threw,
      ok |-> ~inputHash.threw /\ inputHash.hex = configHash.hex]

Bearer == <<"B", "e", "a", "r", "e", "r", " ">>

\* validTokens.get(token)
MapGet(map, token) ==
  IF token \in DOMAIN map /\ map[token].live THEN map[token] ELSE NoSession

\* verifyToken letting a token through whatever its expiresAt
verifyTokenNoExpiry(authHeader, map, clock) ==
  IF Falsy(authHeader) \/ ~startsWith(authHeader.v, Bearer)
  THEN [ok |-> FALSE, map |-> map]
  ELSE LET token == substring(authHeader.v, 7, Len(authHeader.v))
           tokenData == MapGet(map, token)
       IN IF ~tokenData.live THEN [ok |-> FALSE, map |-> map]
          ELSE [ok |-> TRUE,
                map |-> [map EXCEPT ![token].expiresAt = clock + sessionTimeout]]

\* verifyToken leaving expiresAt as the login set it
verifyTokenNoRefresh(authHeader, map, clock) ==
  IF Falsy(authHeader) \/ ~startsWith(authHeader.v, Bearer)
  THEN [ok |-> FALSE, map |-> map]
  ELSE LET token == substring(authHeader.v, 7, Len(authHeader.v))
           tokenData == MapGet(map, token)
       IN IF ~tokenData.live THEN [ok |-> FALSE, map |-> map]
          ELSE IF clock > tokenData.expiresAt
          THEN [ok |-> FALSE, map |-> [map EXCEPT ![token] = NoSession]]
          ELSE [ok |-> TRUE, map |-> map]

\* the middleware: ok is next(), otherwise the answer is 401
verifyToken(authHeader, map, clock) ==
  IF Falsy(authHeader) \/ ~startsWith(authHeader.v, Bearer)
  THEN [ok |-> FALSE, map |-> map]
  ELSE LET token == substring(authHeader.v, 7, Len(authHeader.v))
           tokenData == MapGet(map, token)
       IN IF ~tokenData.live THEN [ok |-> FALSE, map |-> map]
          ELSE IF clock > tokenData.expiresAt
          THEN [ok |-> FALSE, map |-> [map EXCEPT ![token] = NoSession]]
          ELSE [ok |-> TRUE,
                map |-> [map EXCEPT ![token].expiresAt = clock + sessionTimeout]]

\* a request takes the first free slot
Request(s) ==
  /\ used.req < MaxRequests
  /\ FirstFree(s)
  /\ used' = [used EXCEPT !.req = @ + 1]

\* the tokens a header names as 'Bearer t'
Named(h) == {k \in Tokens : h = Str(Bearer \o k)}

\* the contract's view of token k: accepted until sessionTimeout has passed
\* since the login or the last request it authenticated
Due(k) == hist[k].state = "live" /\ now - hist[k].last <= sessionTimeout

\* the history after a request with header h on the given route
Noted(h, route) ==
  [k \in Tokens |->
     IF k \notin Named(h) \/ hist[k].state # "live" THEN hist[k]
     ELSE IF Due(k) /\ route # "logout" THEN [state |-> "live", last |-> now]
     ELSE IF Due(k) THEN [state |-> "out", last |-> hist[k].last]
     ELSE [state |-> "dead", last |-> hist[k].last]]

AdminRoutes == {"adminList", "adminView", "adminDelete", "logout", "verify"}
StoreRoutes == {"adminList", "adminView", "adminDelete"}

\* the logout handler leaving the token in the map
logoutKeepingToken(map, token) == map

\* POST /logout after verifyToken: validTokens.delete(token)
logout(map, token) == [map EXCEPT ![token] = NoSession]

\* a request to a route behind verifyToken, up to its first await
AdminRequest(s, route, h, id) ==
  LET v == verifyToken(h, validTokens, now)
      token == substring(h.v, 7, Len(h.v))
      base == [IdleTask EXCEPT
                 !.route = route, !.hdr = h, !.id = id, !.at = now,
                 !.due = \E k \in Named(h) : Due(k),
                 !.gone = \E k \in Named(h) : hist[k].state = "out",
                 !.auth = \E k \in Named(h) :
                            validTokens[k].live /\ now <= validTokens[k].expiresAt]
  IN /\ Request(s)
     /\ hist' = Noted(h, route)
     /\ IF ~v.ok
        THEN /\ validTokens' = v.map
             /\ tasks' = [tasks EXCEPT ![s] = [base EXCEPT !.pc = "done", !.status = 401]]
        ELSE IF route = "logout"
        THEN /\ validTokens' = logout(v.map, token)
             /\ tasks' = [tasks EXCEPT ![s] = [base EXCEPT !.pc = "done", !.status = 200]]
        ELSE IF route = "verify"
        THEN /\ validTokens' = v.map
             /\ tasks' = [tasks EXCEPT ![s] = [base EXCEPT !.pc = "done", !.status = 200]]
        ELSE /\ validTokens' = v.map
             /\ tasks' = [tasks EXCEPT ![s] =
                  [base EXCEPT !.pc = "read",
                     !.op = IF route = "adminDelete" THEN "deleteById" ELSE "getAll"]]
     /\ UNCHANGED <<env, made, file, audit, now, fresh, seq>>

\* POST /api/admin/login for a request the rate limiter lets through; the
\* awaited logAdminAccess is taken together with the answer
Login(s, password) ==
  LET base == [IdleTask EXCEPT !.route = "login", !.pw = password, !.at = now]
      checked == verifyPassword(password)
      token == generateToken(fresh.token)
      Answer(status) == [tasks EXCEPT ![s] = [base EXCEPT !.pc = "done", !.status = status]]
  IN /\ Request(s)
     /\ fresh.token <= Len(TokenDigits)
     /\ IF Falsy(password)
        THEN /\ tasks' = Answer(400)
             /\ UNCHANGED <<audit, validTokens, hist, fresh>>
        ELSE IF checked.threw
        THEN /\ tasks' = Answer(500)
             /\ UNCHANGED <<audit, validTokens, hist, fresh>>
        ELSE IF ~checked.ok
        THEN /\ audit' = appendFile(audit, Entry("ADMIN_LOGIN_FAILED", 0, <<>>, 0))
             /\ tasks' = [tasks EXCEPT ![s] =
                  [Counted(base) EXCEPT !.pc = "done", !.status = 401]]
             /\ UNCHANGED <<validTokens, hist, fresh>>
        ELSE /\ validTokens' = [validTokens EXCEPT ![token] =
                  [live |-> TRUE, createdAt |-> now, expiresAt |-> now + sessionTimeout]]
             /\ hist' = [hist EXCEPT ![token] = [state |-> "live", last |-> now]]
             /\ fresh' = [fresh EXCEPT !.token = @ + 1]
             /\ audit' = appendFile(audit, Entry("ADMIN_LOGIN_SUCCESS", 0, <<>>, 0))
             /\ tasks' = [tasks EXCEPT ![s] =
                  [Counted(base) EXCEPT !.pc = "done", !.status = 200, !.token = token]]
     /\ UNCHANGED <<env, made, file, now, seq>>

----------------------------------------------------------------------------
(* routes/contact.js *)

ALLOWED_INTERESTS ==
  <<"3d-modell", "ar-optimiert", "renderings", "animation", "other">>

ALLOWED_BUDGETS == <<<<"<", "5", "0", "0">>, <<>>>>

\* Array.prototype.includes for a list of strings
includes(list, x) == \E i \in 1..Len(list) : list[i] = x

Digits == {"0", "1", "2", "3", "4", "5", "6", "7", "8", "9"}

\* validator.isEmail: one @, a local part, a domain with a dot and a
\* top-level part of two characters or more, no blank
isEmail(str) ==
  LET ats == {i \in 1..Len(str) : str[i] = "@"}
      dots == {i \in 1..Len(str) : str[i] = "."}
  IN /\ Cardinality(ats) = 1
     /\ \A i \in 1..Len(str) : str[i] # " "
     /\ \E a \in ats :
          /\ a > 1
          /\ \E d \in dots : d > a + 1 /\ d < Len(str) - 1
          /\ str[Len(str)] # "."

\* validator.isURL with protocols http, https and require_protocol
isURL(str) ==
  LET http == <<"h", "t", "t", "p", ":", "/", "/">>
      https == <<"h", "t", "t", "p", "s", ":", "/", "/">>
      Host(h) == /\ Len(h) >= 3
                 /\ \A i \in 1..Len(h) : h[i] # " "
                 /\ \E d \in 2..(Len(h) - 1) : h[d] = "."
  IN \/ startsWith(str, http) /\ Host(SubSeq(str, 8, Len(str)))
     \/ startsWith(str, https) /\ Host(SubSeq(str, 9, Len(str)))

\* validator.isDate with format YYYY-MM-DD (months and days by their range)
isDate(str) ==
  /\ Len(str) = 10
  /\ str[5] = "-" /\ str[8] = "-"
  /\ \A i \in {1, 2, 3, 4, 6, 7, 9, 10} : str[i] \in Digits
  /\ <<str[6], str[7]>> \in
       {<<"0", d>> : d \in Digits \ {"0"}} \cup {<<"1", d>> : d \in {"0", "1", "2"}}
  /\ <<str[9], str[10]>> \in
       {<<"0", d>> : d \in Digits \ {"0"}}
         \cup {<<t, d>> : t \in {"1", "2"}, d \in Digits}
         \cup {<<"3", d>> : d \in {"0", "1"}}

gmail == <<"g", "m", "a", "i", "l", ".", "c", "o", "m">>
googlemail == <<"g", "o", "o", "g", "l", "e", "m", "a", "i", "l", ".", "c", "o", "m">>

\* validator.normalizeEmail with its default options: the domain in lower
\* case; for gmail.com and googlemail.com the user part loses its
\* '+subaddress' and its dots and the domain becomes gmail.com; the user
\* part in lower case. (false, here the empty string, for what is no
\* address or has no user part left; the branches for icloud, outlook,
\* yahoo and yandex domains are left out, no input here is of these.)
normalizeEmail(email) ==
  IF ~isEmail(email) THEN <<>>
  ELSE LET at == CHOOSE i \in 1..Len(email) : email[i] = "@"
           user == SubSeq(email, 1, at - 1)
           domain == toLowerCase(SubSeq(email, at + 1, Len(email)))
           plus == {i \in 1..Len(user) : user[i] = "+"}
           cut == IF plus = {} THEN user
                  ELSE SubSeq(user, 1, (CHOOSE i \in plus : \A j \in plus : i <= j) - 1)
           undotted == SelectSeq(cut, LAMBDA c : c # ".")
       IN IF domain \in {gmail, googlemail}
          THEN IF undotted = <<>> THEN <<>>
               ELSE toLowerCase(undotted) \o <<"@">> \o gmail
          ELSE toLowerCase(user) \o <<"@">> \o domain

\* `!x || x.trim() === ''`: "blank", "filled", or "throw" when x is truthy
\* and no string (x.trim is not a function)
Blank(x) ==
  IF Falsy(x) THEN "blank"
  ELSE IF x.type # "string" THEN "throw"
  ELSE IF trim(x.v) = <<>> THEN "blank" ELSE "filled"

\* the validation of router.post('/'): the errors pushed, or the TypeError
validate(body) ==
  LET company == Blank(body.company)
      email == Blank(body.email)
      message == Blank(body.message)
      website == Blank(body.website)
      deadline == Blank(body.deadline)
      errors ==
        {"company" : x \in {1} \cap {n \in {1} : company = "blank"}}
        \cup {"email" : x \in {n \in {1} :
                 email = "blank" \/ (email = "filled" /\ ~isEmail(body.email.v))}}
        \cup {"interests" : x \in {n \in {1} :
                 \/ Falsy(body.interests)
                 \/ body.interests.type # "array"
                 \/ body.interests.v = <<>>
                 \/ \E i \in 1..Len(body.interests.v) :
                      ~includes(ALLOWED_INTERESTS, body.interests.v[i])}}
        \cup {"message" : x \in {n \in {1} : message = "blank"}}
        \cup {"consent" : x \in {n \in {1} : body.consent # Bool("true")}}
        \cup {"website" : x \in {n \in {1} :
                 website = "filled" /\ ~isURL(body.website.v)}}
        \cup {"budget" : x \in {n \in {1} :
                 /\ ~Falsy(body.budget)
                 /\ ~(body.budget.type = "string"
                       /\ includes(ALLOWED_BUDGETS, body.budget.v))}}
        \cup {"deadline" : x \in {n \in {1} :
                 deadline = "filled" /\ ~isDate(body.deadline.v)}}
  IN IF "throw" \in {company, email, message, website, deadline}
     THEN [threw |-> TRUE, errors |-> {}]
     ELSE [threw |-> FALSE, errors |-> errors]

\* POST /api/contact for a request the rate limiter lets through, up to
\* `await dataManagement.saveSubmission(sanitizedData)`
Contact(s, body) ==
  LET checked == validate(body)
      base == [IdleTask EXCEPT !.route = "contact", !.body = body, !.at = now]
      normalized == normalizeEmail(body.email.v)
      email == IF normalized # <<>> THEN normalized
               ELSE trim(toLowerCase(body.email.v))
  IN /\ used.launch < MaxLaunch
     /\ FirstFree(s)
     /\ used' = [used EXCEPT !.launch = @ + 1]
     /\ IF checked.threw
        THEN /\ tasks' = [tasks EXCEPT ![s] = [base EXCEPT !.pc = "done", !.status = 500]]
             /\ UNCHANGED <<fresh, made>>
        ELSE IF checked.errors # {}
        THEN /\ tasks' = [tasks EXCEPT ![s] = [base EXCEPT !.pc = "done", !.status = 400]]
             /\ UNCHANGED <<fresh, made>>
        ELSE /\ tasks' = [tasks EXCEPT ![s] =
                  [base EXCEPT !.op = "save", !.pc = "read", !.email = email,
                               !.sub = Stamp(fresh.id, email, now, now, env.retentionDays)]]
             /\ fresh' = [fresh EXCEPT !.id = @ + 1]
             /\ made' = made \cup {Stamp(fresh.id, email, now, now, env.retentionDays)}
     /\ UNCHANGED <<env, file, audit, now, validTokens, hist, seq>>

\* the handler continues after its awaited data-management call: the
\* contact route to its email section, an admin route to the answer (an
\* awaited logAdminAccess is taken together with the answer)
Respond(s) ==
  LET t == tasks[s]
      found == \E i \in 1..Len(t.ret.list) : t.ret.list[i].id = t.id
      Answered(u, status) ==
        tasks' = [tasks EXCEPT ![s] = [u EXCEPT !.pc = "done", !.status = status]]
      Answer(status, note) ==
        tasks' = [tasks EXCEPT ![s] = [t EXCEPT !.pc = "done", !.status = status,
                                                !.note = note]]
  IN /\ t.pc = "ret"
     /\ IF t.ret.threw
        THEN Answer(500, "") /\ UNCHANGED audit
        ELSE CASE t.route = "contact" ->
                    /\ tasks' = [tasks EXCEPT ![s].pc = "notify"]
                    /\ UNCHANGED audit
               [] t.route = "adminList" ->
                    /\ audit' = appendFile(audit,
                         Entry("ADMIN_LIST_SUBMISSIONS", 0, <<>>, Len(t.ret.list)))
                    /\ Answered(Counted(t), 200)
               [] t.route = "adminView" ->
                    IF found
                    THEN /\ audit' = appendFile(audit,
                              Entry("ADMIN_VIEW_SUBMISSION", t.id, <<>>, 0))
                         /\ Answered(Counted(t), 200)
                    ELSE Answer(404, "") /\ UNCHANGED audit
               [] t.route = "adminDelete" ->
                    /\ Answer(IF t.ret.n = 0 THEN 404 ELSE 200, "")
                    /\ UNCHANGED audit
     /\ UNCHANGED <<env, made, file, now, validTokens, hist, fresh, seq, used>>

\* what a send can come to: nothing is sent without an SMTP configuration,
\* and transporter.sendMail resolves or rejects
MailOutcomes == IF env.smtp THEN {"sent", "failed"} ELSE {"skipped"}

\* the contact route answering 500 when the notification fails (no try/catch)
afterNotificationFatal(t, outcome, autoResponse) ==
  IF outcome = "failed"
  THEN [t EXCEPT !.mail = Append(@, outcome), !.pc = "done", !.status = 500]
  ELSE IF autoResponse
  THEN [t EXCEPT !.mail = Append(@, outcome), !.pc = "auto"]
  ELSE [t EXCEPT !.mail = Append(@, outcome), !.pc = "done", !.status = 200]

\* the contact route after `await emailService.sendNotification` inside its
\* try/catch, up to the next await or the answer
afterNotification(t, outcome, autoResponse) ==
  IF autoResponse
  THEN [t EXCEPT !.mail = Append(@, outcome), !.pc = "auto"]
  ELSE [t EXCEPT !.mail = Append(@, outcome), !.pc = "done", !.status = 200]

\* the contact route after `await emailService.sendAutoResponse` inside its
\* try/catch, to the answer
afterAutoResponse(t, outcome) ==
  [t EXCEPT !.mail = Append(@, outcome), !.pc = "done", !.status = 200]

sendNotification(s) ==
  /\ tasks[s].pc = "notify"
  /\ \E outcome \in MailOutcomes :
       tasks' = [tasks EXCEPT ![s] =
                   afterNotification(tasks[s], outcome, env.autoResponse)]
  /\ UNCHANGED <<env, made, file, audit, now, validTokens, hist, fresh, seq, used>>

sendAutoResponse(s) ==
  /\ tasks[s].pc = "auto"
  /\ \E outcome \in MailOutcomes :
       tasks' = [tasks EXCEPT ![s] = afterAutoResponse(tasks[s], outcome)]
  /\ UNCHANGED <<env, made, file, audit, now, validTokens, hist, fresh, seq, used>>

----------------------------------------------------------------------------
(* The store when the file was changed from outside or the key replaced *)

\* the file as an earlier run left it under another ENCRYPTION_KEY
WrongKeyFile ==
  [exists |-> TRUE, text |-> stringify(EncryptWith(OtherKey, Seeded, 1))]

TamperKinds == {"cut", "tag", "iv"}

\* the envelope with part of the ciphertext cut out, or with another
\* authTag, or with another iv
Tampered(text, kind) ==
  CASE kind = "cut" -> SubSeq(text, 1, Len(text) - 2) \o <<text[Len(text)]>>
    [] kind = "tag" -> [text EXCEPT ![2].iv = 0]
    [] kind = "iv" -> [text EXCEPT ![1].iv = 0]

\* somebody edits data/submissions.enc while no call is in flight
Tamper ==
  /\ used.fault < MaxFault
  /\ Quiet
  /\ file.exists /\ Parseable(file.text)
  /\ \E kind \in TamperKinds :
       /\ kind = "cut" => Len(file.text) > 3
       /\ file' = [file EXCEPT !.text = Tampered(file.text, kind)]
  /\ seq' = seq + 1
  /\ used' = [used EXCEPT !.fault = @ + 1]
  /\ UNCHANGED <<env, made, audit, now, validTokens, hist, tasks, fresh>>

InitFault ==
  /\ InitCommon
  /\ env = DefaultEnv
  /\ file \in {SeededFile, WrongKeyFile}
  /\ fresh = [id |-> 4, iv |-> 2, token |-> 1]

FaultEmails == {by}
FaultQueries == {ax}
FaultIds == {2}

NextFault ==
  \/ \E s \in Slots :
       \/ Quiet /\ CallSave(s, FaultEmails)
       \/ Quiet /\ CallDeleteSubmission(s, FaultIds)
       \/ Quiet /\ CallDeleteByEmail(s, FaultQueries)
       \/ Quiet /\ CallExportByEmail(s, FaultQueries)
       \/ Quiet /\ CallGetAll(s)
       \/ Quiet /\ CallCleanup(s)
       \/ Steps(s)
  \/ Tamper
  \/ Tick(StoreDays, MaxClock)

SpecFault == InitFault /\ [][NextFault]_vars

----------------------------------------------------------------------------
(* The admin routes *)

Passwords == {Undefined, Str(AdminPassword), Str(<<"P", "w">>), Num("7")}

t1 == generateToken(1)
t9 == generateToken(9)

Headers ==
  {Undefined,
   Str(toLowerCase(Bearer) \o t1),
   Str(Bearer \o t1),
   Str(Bearer \o t9)}

AdminIds == {2, 9}

\* half the timeout, and a second more
SessionSteps == {sessionTimeout \div 2, sessionTimeout \div 2 + 1}

InitAdmin ==
  /\ InitCommon
  /\ env = DefaultEnv
  /\ file = SeededFile
  /\ fresh = [id |-> 4, iv |-> 2, token |-> 1]

NextAdmin ==
  \/ \E s \in Slots :
       \/ \E p \in Passwords : Login(s, p)
       \/ \E r \in AdminRoutes, h \in Headers :
            \E id \in IF r \in {"adminView", "adminDelete"} THEN AdminIds ELSE {0} :
              AdminRequest(s, r, h, id)
       \/ Steps(s)
       \/ Respond(s)
  \/ Tick(SessionSteps, MaxIdle)

SpecAdmin == InitAdmin /\ [][NextAdmin]_vars

----------------------------------------------------------------------------
(* The contact route *)

ValidBody ==
  [company |-> Str(<<"A", "c">>), email |-> Str(Ax),
   interests |-> Arr(<<"renderings">>), message |-> Str(<<"h", "i">>),
   consent |-> Bool("true"), website |-> Undefined,
   budget |-> Undefined, deadline |-> Undefined]

BodyEmails ==
  {Undefined, Null, Str(<<>>), Str(<<" ", " ">>), Str(Ax), Str(axPadded),
   Str(<<"n", "o">>), Num("7")}
BodyCompanies == {Str(<<"A", "c">>), Num("7")}

Bodies ==
  {[ValidBody EXCEPT !.email = e, !.company = c] :
     e \in BodyEmails, c \in BodyCompanies}
  \cup {[ValidBody EXCEPT !.company = x] : x \in {Undefined, Str(<<" ">>)}}
  \cup {[ValidBody EXCEPT !.message = x] : x \in {Str(<<>>), Arr(<<>>)}}
  \cup {[ValidBody EXCEPT !.interests = x] :
          x \in {Undefined, Arr(<<>>), Arr(<<"renderings", "bogus">>), Str(<<"o">>)}}
  \cup {[ValidBody EXCEPT !.consent = x] : x \in {Undefined, Str(<<"t">>), Bool("false")}}
  \cup {[ValidBody EXCEPT !.website = x] :
          x \in {Str(<<"h", "t", "t", "p", ":", "/", "/", "x", ".", "c", "o">>),
                  Str(<<"x">>), Bool("true")}}
  \cup {[ValidBody EXCEPT !.budget = x] :
          x \in {Str(<<"<", "5", "0", "0">>), Str(<<"9">>), Num("9")}}
  \cup {[ValidBody EXCEPT !.deadline = x] :
          x \in {Str(<<"2", "0", "2", "7", "-", "0", "1", "-", "3", "1">>),
                  Str(<<"s", "o", "o", "n">>), Num("9")}}

InitContact ==
  /\ InitCommon
  /\ env \in {[DefaultEnv EXCEPT !.autoResponse = b, !.smtp = m] :
                b \in BOOLEAN, m \in BOOLEAN}
  /\ file = Absent
  /\ fresh = [id |-> 1, iv |-> 1, token |-> 1]

NextContact ==
  \E s \in Slots :
    \/ \E b \in Bodies : Contact(s, b)
    \/ Steps(s)
    \/ Respond(s)
    \/ sendNotification(s)
    \/ sendAutoResponse(s)

SpecContact == InitContact /\ [][NextContact]_vars

----------------------------------------------------------------------------
(* The store under other retention periods *)

RetentionEnvs ==
  {Undefined, Str(<<"9", "0">>), Str(<<"0">>), Str(<<"-", "1">>),
   Str(<<"7", "d">>), Str(<<"x">>)}

\* the clock stands still between the two reads of a stamp, or moves by one
ClockSkews == {0, 1}

RetentionIds == {1, 9}

InitRetention ==
  /\ InitCommon
  /\ env \in {EnvWith(x) : x \in RetentionEnvs}
  /\ file = Absent
  /\ fresh = [id |-> 1, iv |-> 1, token |-> 1]

NextRetention ==
  \/ \E s \in Slots :
       \/ Quiet /\ CallSaveSkewed(s, FaultEmails, ClockSkews)
       \/ Quiet /\ CallDeleteSubmission(s, RetentionIds)
       \/ Quiet /\ CallDeleteByEmail(s, FaultQueries)
       \/ Quiet /\ CallCleanup(s)
       \/ Steps(s)
  \/ Tick(StoreDays, MaxClock)

SpecRetention == InitRetention /\ [][NextRetention]_vars

----------------------------------------------------------------------------
(* Vocabulary of the properties *)

Range(q) == {q[i] : i \in 1..Len(q)}

\* the list a reader would get now
Store == readSubmissions(file).list

Readable == Saw(file) \in {"absent", "valid"}

Wrote(t) == t.wrAt >= 0

\* the call's own write was not interleaved with another file event, and no
\* file event followed the call's last one
Undisturbed(t) ==
  IF Wrote(t) THEN t.wrAt = t.opAt + 1 /\ seq = t.wrAt ELSE seq = t.rdAt

\* does the call's own operation target submission x
Targets(t, x) ==
  CASE t.op = "deleteById" -> x.id = t.id
    [] t.op = "deleteByEmail" -> toLowerCase(x.email) = trim(toLowerCase(t.email))
    [] t.op = "cleanup" -> x.expiresAt <= t.at
    [] OTHER -> FALSE

\* the list the call's operation makes of the list it read itself
Own(t) ==
  LET Spared(x) == ~Targets(t, x)
  IN IF t.op = "save" THEN Append(t.snap, t.sub) ELSE SelectSeq(t.snap, Spared)

Added(t) == IF t.op = "save" THEN {t.sub} ELSE {}

Removed(t) == Range(t.snap) \ Range(t.out)

\* both calls read before either began to write, b finished writing after a,
\* and b's write is the last file event
Overlap(a, b) ==
  /\ a # b
  /\ Wrote(tasks[a]) /\ Wrote(tasks[b])
  /\ tasks[a].rdAt < tasks[b].opAt
  /\ tasks[b].rdAt < tasks[a].opAt
  /\ tasks[a].wrAt < tasks[b].wrAt
  /\ seq = tasks[b].wrAt

\* b opened the file only after a had finished writing it, and no other
\* file event came between b's open and b's write
Apart(a, b) ==
  /\ tasks[a].wrAt < tasks[b].opAt
  /\ tasks[b].wrAt = tasks[b].opAt + 1

----------------------------------------------------------------------------
(* C1 *)

----------------------------------------------------------------------------
(* C2 *)

\* C2 (as claimed): a submission that save has written is in the store
\* unless a cleanup that ran at or after its expiresAt, or a deleteById or
\* deleteByEmail that targets it, wrote the store after the save did.
C2_StaysUntilRemoved ==
  \A a \in Slots :
    (/\ tasks[a].op = "save" /\ Wrote(tasks[a]) /\ Readable
     /\ \A b \in Slots : Wrote(tasks[b]) => tasks[b].wrAt = tasks[b].opAt + 1) =>
      \/ tasks[a].sub \in Range(Store)
      \/ \E b \in Slots :
           /\ Targets(tasks[b], tasks[a].sub)
           /\ tasks[b].wrAt > tasks[a].wrAt

----------------------------------------------------------------------------
(* C3 *)

\* C3 (as claimed): no read ever meets a file that is there and is not a
\* complete envelope.
C3_NoPartialEnvelopeRead ==
  \A s \in Slots : tasks[s].saw # "garbled"

----------------------------------------------------------------------------
(* C4 *)

Finished(t, op) ==
  /\ t.op = op /\ t.pc = "done" /\ ~t.ret.threw
  /\ t.saw \in {"absent", "valid"}
  /\ Undisturbed(t)

\* C4 (as claimed): deleteByEmail(e) leaves exactly the submissions it read
\* whose email differs from e when case is ignored, in order, and returns
\* how many it removed.
C4_DeleteByEmailIgnoringCase ==
  \A s \in Slots :
    Finished(tasks[s], "deleteByEmail") =>
      LET Other(x) == toLowerCase(x.email) # toLowerCase(tasks[s].email)
          rest == SelectSeq(tasks[s].snap, Other)
      IN /\ Store = rest
         /\ tasks[s].ret.n = Len(tasks[s].snap) - Len(rest)

\* C4 (amended): deleteByEmail(e) leaves exactly the submissions it read
\* whose email differs, when case is ignored, from e with its surrounding
\* whitespace trimmed, in order, and returns how many it removed.
C4_DeleteByEmailTrimmed ==
  \A s \in Slots :
    Finished(tasks[s], "deleteByEmail") =>
      LET Other(x) == toLowerCase(x.email) # trim(toLowerCase(tasks[s].email))
          rest == SelectSeq(tasks[s].snap, Other)
      IN /\ Store = rest
         /\ tasks[s].ret.n = Len(tasks[s].snap) - Len(rest)

\* the example: "A@x.co", "a@x.co" and one other stored, "a@x.co" deleted
C4_Witness ==
  \E s \in Slots :
    /\ Finished(tasks[s], "deleteByEmail")
    /\ tasks[s].email = ax
    /\ tasks[s].snap = Seeded
    /\ tasks[s].ret.n = 2
    /\ Len(Store) = 1

----------------------------------------------------------------------------
(* C5 *)

\* C5: a cleanup pass leaves exactly the submissions it read whose expiresAt
\* is later than the time of the pass, in order, and returns how many it
\* removed; with 180 days of retention one created 200 days before the pass
\* is removed and one created 10 days before it is kept.
C5_CleanupRemovesExpired ==
  \A s \in Slots :
    Finished(tasks[s], "cleanup") =>
      LET t == tasks[s]
          Live(x) == x.expiresAt > t.at
          rest == SelectSeq(t.snap, Live)
      IN /\ Store = rest
         /\ t.ret.n = Len(t.snap) - Len(rest)
         /\ \A x \in Range(t.snap) :
              /\ x.createdAt = t.at - 200 * DaySeconds => x \notin Range(Store)
              /\ x.createdAt = t.at - 10 * DaySeconds => x \in Range(Store)

\* the example: of three stored, the one created 200 days ago goes
C5_Witness ==
  \E s \in Slots :
    /\ Finished(tasks[s], "cleanup")
    /\ tasks[s].snap = Seeded
    /\ tasks[s].ret.n = 1
    /\ Store = <<Seeded[2], Seeded[3]>>

----------------------------------------------------------------------------
(* C6 *)

\* C6: a request to GET /submissions, GET /submissions/:id or DELETE
\* /submissions/:id goes on to the store only if its Authorization header is
\* 'Bearer t' for a token t that is in the session map and not expired when
\* the request arrives; every other such request is answered 401 and has
\* neither read nor written the store.
C6_StoreBehindToken ==
  \A s \in Slots :
    tasks[s].route \in StoreRoutes =>
      IF tasks[s].auth
      THEN tasks[s].status # 401
      ELSE /\ tasks[s].pc = "done" /\ tasks[s].status = 401
           /\ tasks[s].op = "idle"
           /\ tasks[s].rdAt = -1 /\ tasks[s].opAt = -1 /\ tasks[s].wrAt = -1

\* a DELETE with a live token has removed a submission, and a request that
\* came meanwhile without one has been turned away
C6_Witness ==
  \E a, b \in Slots :
    /\ tasks[a].route = "adminDelete" /\ tasks[a].auth
    /\ tasks[a].status = 200 /\ tasks[a].wrAt >= 0
    /\ tasks[b].route \in StoreRoutes /\ ~tasks[b].auth
    /\ tasks[b].status = 401

----------------------------------------------------------------------------
(* C7 *)

\* C7: a request with a token is turned away with 401 exactly if the token
\* was never issued, or more than sessionTimeout has passed since its login
\* or the last request it authenticated, or it was removed before (by a
\* request after its expiry, or a logout); a token in the map expires
\* sessionTimeout after its login or its last accepted request, and a token
\* once removed stays out of the map.
C7_SlidingExpiry ==
  /\ \A s \in Slots :
       tasks[s].route \in AdminRoutes =>
         (tasks[s].status = 401 <=> ~tasks[s].due)
  /\ \A k \in Tokens :
       /\ validTokens[k].live <=> hist[k].state = "live"
       /\ validTokens[k].live =>
            validTokens[k].expiresAt = hist[k].last + sessionTimeout

\* a request accepted more than sessionTimeout after the login, because an
\* earlier request had moved the expiry
C7_Witness ==
  \E s \in Slots :
    /\ tasks[s].route \in AdminRoutes
    /\ tasks[s].hdr = Str(Bearer \o t1)
    /\ tasks[s].due /\ tasks[s].status = 200
    /\ validTokens[t1].live
    /\ tasks[s].at > validTokens[t1].createdAt + sessionTimeout

----------------------------------------------------------------------------
(* C8 *)

\* C8 (as claimed): a login is answered with a new token exactly if the
\* password is the configured one; a missing password is answered 400 and
\* any other password 401, and neither gets a token.
C8_LoginByPassword ==
  \A s \in Slots :
    (tasks[s].route = "login" /\ tasks[s].pc = "done") =>
      LET t == tasks[s]
      IN /\ t.status = 200 <=> t.pw = Str(AdminPassword)
         /\ t.status = 200 => t.token \in Tokens /\ hist[t.token].state # "none"
         /\ t.status # 200 => t.token = <<>>
         /\ t.pw = Undefined => t.status = 400
         /\ (t.pw # Undefined /\ t.pw # Str(AdminPassword)) => t.status = 401

----------------------------------------------------------------------------
(* C9 *)

\* the call read an envelope that does not decrypt and left it alone: it
\* went on with no data, wrote nothing, and the file is as the read found it
Stopped(t) ==
  /\ t.snap = <<>> /\ t.out = <<>> /\ t.ret.list = <<>>
  /\ t.opAt = -1 /\ t.wrAt = -1
  /\ seq = t.rdAt => Saw(file) = "forged"

\* C9 (as claimed): whichever operation reads an envelope that was tampered
\* with or written under another key, it reports the failure to its caller
\* (it throws), goes on with no data and does not overwrite the store.
C9_DecryptFailureReported ==
  \A s \in Slots :
    (tasks[s].saw = "forged" /\ tasks[s].pc = "done") =>
      Stopped(tasks[s]) /\ tasks[s].ret.threw

\* C9 (amended): save, getAll, deleteById, deleteByEmail and exportByEmail
\* throw to their caller; cleanupExpiredData catches the error and returns 0
\* as it does when nothing has expired; none goes on with data or overwrites
\* the store.
C9_DecryptFailureStops ==
  \A s \in Slots :
    (tasks[s].saw = "forged" /\ tasks[s].pc = "done") =>
      /\ Stopped(tasks[s])
      /\ tasks[s].op # "cleanup" => tasks[s].ret.threw
      /\ tasks[s].op = "cleanup" => tasks[s].ret = NoRet

\* a save that met a tampered envelope, threw and left it as it was
C9_Witness ==
  \E s \in Slots :
    /\ tasks[s].op = "save" /\ tasks[s].pc = "done"
    /\ tasks[s].saw = "forged" /\ tasks[s].ret.threw
    /\ seq = tasks[s].rdAt /\ used.fault = 1
    /\ Saw(file) = "forged"

----------------------------------------------------------------------------
(* C10 *)

\* the body has no email: absent, null, empty or blank
NoEmail(body) ==
  \/ body.email \in {Undefined, Null}
  \/ body.email.type = "string" /\ trim(body.email.v) = <<>>

\* C10 (as claimed): a contact request whose body has no email is answered
\* 400 and saveSubmission is not called for it.
C10_NoEmailRejected ==
  \A s \in Slots :
    (tasks[s].route = "contact" /\ tasks[s].pc = "done"
       /\ NoEmail(tasks[s].body)) =>
      /\ tasks[s].status = 400
      /\ tasks[s].op = "idle" /\ tasks[s].rdAt = -1 /\ tasks[s].opAt = -1

----------------------------------------------------------------------------
(* C11 *)

Present(x) == x \notin {Undefined, Null, Str(<<>>)}

\* the body has a bad or missing field
BadField(body) ==
  \/ ~(body.company.type = "string" /\ trim(body.company.v) # <<>>)
  \/ ~(body.email.type = "string" /\ isEmail(body.email.v))
  \/ ~(/\ body.interests.type = "array"
        /\ body.interests.v # <<>>
        /\ \A i \in 1..Len(body.interests.v) :
             includes(ALLOWED_INTERESTS, body.interests.v[i]))
  \/ ~(body.message.type = "string" /\ trim(body.message.v) # <<>>)
  \/ body.consent # Bool("true")
  \/ /\ Present(body.website)
     /\ ~(body.website.type = "string"
            /\ (trim(body.website.v) = <<>> \/ isURL(body.website.v)))
  \/ /\ Present(body.budget)
     /\ ~(body.budget.type = "string" /\ includes(ALLOWED_BUDGETS, body.budget.v))
  \/ /\ Present(body.deadline)
     /\ ~(body.deadline.type = "string"
            /\ (trim(body.deadline.v) = <<>> \/ isDate(body.deadline.v)))

\* C11 (as claimed): a contact request whose body has a bad or missing
\* field, of whatever type, is answered 400 and nothing is stored for it.
C11_BadFieldRejected ==
  \A s \in Slots :
    (tasks[s].route = "contact" /\ BadField(tasks[s].body)) =>
      /\ tasks[s].pc = "done" /\ tasks[s].status = 400
      /\ tasks[s].op = "idle" /\ tasks[s].opAt = -1

----------------------------------------------------------------------------
(* C12 *)

\* C12: a contact request whose saveSubmission succeeded is answered 200
\* whatever became of the notification and the auto-response, and the email
\* section writes nothing: the submission is in the store as the save left
\* it for as long as no other call has written the file since.
C12_MailFailureHarmless ==
  \A s \in Slots :
    LET t == tasks[s]
    IN (t.route = "contact" /\ t.wrAt >= 0 /\ t.pc \in {"notify", "auto", "done"}) =>
         /\ t.pc = "done" => t.status = 200
         /\ ~t.ret.threw
         /\ (t.wrAt = t.opAt + 1 /\ seq = t.wrAt) => t.sub \in Range(Store)

\* both sends failed, the answer is 200 and the submission is stored
C12_Witness ==
  \E s \in Slots :
    /\ tasks[s].route = "contact" /\ tasks[s].pc = "done"
    /\ tasks[s].mail = <<"failed", "failed">>
    /\ tasks[s].status = 200
    /\ tasks[s].sub \in Range(Store)

----------------------------------------------------------------------------
(* C13 *)

\* the retention period the environment asks for: RETENTION_DAYS days, 180
\* when it is not set (or is no number)
Configured ==
  IF parseInt(env.RETENTION_DAYS).nan THEN RETENTION_DAYS
  ELSE parseInt(env.RETENTION_DAYS).n

\* C13 (as claimed): every submission in the store has expiresAt equal to
\* createdAt plus the configured retention period, exactly.
C13_ExpiryIsCreationPlusRetention ==
  Readable =>
    \A x \in Range(Store) :
      x.expiresAt = x.createdAt + Configured * DaySeconds

----------------------------------------------------------------------------
(* C14 *)

\* C14: a cleanup called right after a cleanup, with no time passed and the
\* file untouched in between, returns 0, does not rewrite the store and
\* appends no audit entry.
C14_CleanupTwice ==
  \A s \in Slots :
    (tasks[s].op = "cleanup" /\ tasks[s].again /\ tasks[s].pc = "done") =>
      /\ tasks[s].ret = NoRet
      /\ tasks[s].opAt = -1 /\ tasks[s].wrAt = -1
      /\ tasks[s].logged = 0

\* the second of two cleanups, the first of which had removed a submission
C14_Witness ==
  \E s \in Slots :
    /\ tasks[s].op = "cleanup" /\ tasks[s].again /\ tasks[s].pc = "done"
    /\ tasks[s].snap = <<Seeded[2], Seeded[3]>>
    /\ Len(audit) = 1 /\ audit[1].action = "DATA_CLEANUP"

----------------------------------------------------------------------------
(* C15 *)

\* C15: deleteSubmission(id) leaves exactly the entries it read whose id is
\* not id, in order, rewrites the store and returns true when one entry had
\* that id; when none had, it returns false without writing, and the admin
\* DELETE route answers 404 (200 otherwise).
C15_DeleteById ==
  \A s \in Slots :
    Finished(tasks[s], "deleteById") =>
      LET t == tasks[s]
          Other(x) == x.id # t.id
          hits == {i \in 1..Len(t.snap) : t.snap[i].id = t.id}
      IN IF hits # {}
         THEN /\ Cardinality(hits) = 1
              /\ Store = SelectSeq(t.snap, Other)
              /\ Len(Store) = Len(t.snap) - 1
              /\ t.ret.n = 1 /\ t.wrAt >= 0
              /\ t.route = "adminDelete" => t.status = 200
         ELSE /\ Store = t.snap
              /\ t.ret.n = 0 /\ t.opAt = -1
              /\ t.route = "adminDelete" => t.status = 404

\* an admin DELETE of a stored id answered 200, the other two entries left
C15_Witness ==
  \E s \in Slots :
    /\ Finished(tasks[s], "deleteById")
    /\ tasks[s].route = "adminDelete" /\ tasks[s].id = 2
    /\ tasks[s].status = 200
    /\ Store = <<Seeded[1], Seeded[3]>>

----------------------------------------------------------------------------
(* C16 *)

\* C16 (as claimed): once a cleanup invocation that could read the store
\* has run to its end, no submission whose expiresAt had passed when it ran
\* is in the store.
C16_ExpiredGoneAfterCleanup ==
  \A s \in Slots :
    (/\ tasks[s].op = "cleanup" /\ tasks[s].pc = "done"
     /\ tasks[s].saw \in {"absent", "valid"}
     /\ Readable
     /\ \A b \in Slots : Wrote(tasks[b]) => tasks[b].wrAt = tasks[b].opAt + 1) =>
      \A x \in Range(Store) : x.expiresAt > tasks[s].at

----------------------------------------------------------------------------
(* The store on a file system that refuses reads, writes or appends *)

ReadErrors == {"ok", "EACCES"}
WriteErrors == {"ok", "EACCES", "ENOSPC"}
AppendErrors == {"ok", "EACCES"}

InitIO ==
  /\ InitCommon
  /\ \E r \in ReadErrors, w \in WriteErrors, a \in AppendErrors :
       env = [DefaultEnv EXCEPT !.readFile = r, !.writeFile = w, !.appendFile = a]
  /\ \/ file = Absent /\ fresh = [id |-> 1, iv |-> 1, token |-> 1]
     \/ file = SeededFile /\ fresh = [id |-> 4, iv |-> 2, token |-> 1]

NextIO ==
  \/ \E s \in Slots :
       \/ Quiet /\ CallSave(s, StoredEmails)
       \/ Quiet /\ CallDeleteSubmission(s, TargetIds)
       \/ Quiet /\ CallDeleteByEmail(s, QueryEmails)
       \/ Quiet /\ CallExportByEmail(s, QueryEmails)
       \/ Quiet /\ CallGetAll(s)
       \/ Quiet /\ CallCleanup(s)
       \/ Steps(s)
  \/ Tick(StoreDays, MaxClock)

SpecIO == InitIO /\ [][NextIO]_vars

\* what went wrong in a call that has run to its end
ReadFailed(t) == t.saw \in {"ioerror", "garbled", "forged"}
WriteFailed(t) == t.iv > 0 /\ t.wrAt < 0
AuditFailed(t) == t.lost > 0
Ended(t) == t.op # "idle" /\ t.route = "none" /\ t.pc = "done"

----------------------------------------------------------------------------
(* C17 *)

----------------------------------------------------------------------------
(* C18 *)

StoreCalls == {"save", "getAll", "deleteById", "deleteByEmail", "exportByEmail"}

\* C18 (as claimed): a call of save, readAll, deleteById, deleteByEmail or
\* exportByEmail that met no store file went on with the empty list, and a
\* call in which any other read, write or append failed threw to its caller.
C18_IOErrorsPropagate ==
  \A s \in Slots :
    LET t == tasks[s]
    IN (Ended(t) /\ t.op \in StoreCalls) =>
         /\ t.saw = "absent" => t.snap = <<>> /\ ~ReadFailed(t)
         /\ (ReadFailed(t) \/ WriteFailed(t) \/ AuditFailed(t)) => t.ret.threw

----------------------------------------------------------------------------
(* C19 *)

\* C19 (as claimed): once a save call has returned an id, the audit log
\* holds a SUBMISSION_CREATED entry for that id whose email is the first
\* three characters of the address followed by '***'.
C19_SaveAlwaysLogs ==
  \A s \in Slots :
    LET t == tasks[s]
    IN (Ended(t) /\ t.op = "save" /\ ~t.ret.threw) =>
         \E i \in 1..Len(audit) :
           /\ audit[i].action = "SUBMISSION_CREATED"
           /\ audit[i].id = t.ret.n
           /\ audit[i].email = substring(t.sub.email, 0, 3) \o <<"*", "*", "*">>

----------------------------------------------------------------------------
(* C20 *)

\* the admin actions of routes/admin.js, as answered requests
AdminAction(t) ==
  /\ t.pc = "done"
  /\ \/ t.route = "login" /\ t.status \in {200, 401}
     \/ t.route \in {"logout", "adminList", "adminView", "adminDelete"} /\ t.status = 200

\* C20 (as claimed): every answered admin action (login success, login
\* failure, logout, listing, view, deletion) has appended an audit entry of
\* its own, and a request that called getAllSubmissions has a DATA_ACCESS
\* entry in the log.
C20_AdminActionsLogged ==
  \A s \in Slots :
    LET t == tasks[s]
    IN /\ AdminAction(t) => t.logged >= 1
       /\ (t.pc = "done" /\ t.op = "getAll" /\ ~t.ret.threw) =>
            Entry("DATA_ACCESS", 0, <<>>, 0) \in Range(audit)

----------------------------------------------------------------------------
(* C21 *)

\* C21: every step leaves the audit lines there are unchanged and in their
\* order, and adds at most one line at the end; no step removes or rewrites
\* a line, the steps of cleanup and of the deletions included.
C21_AuditLogOnlyGrows ==
  [][/\ Len(audit') \in {Len(audit), Len(audit) + 1}
     /\ SubSeq(audit', 1, Len(audit)) = audit]_vars

\* a deletion has appended its line behind the line of a cleanup
C21_Witness ==
  /\ Len(audit) = 2
  /\ audit[1].action = "DATA_CLEANUP"
  /\ audit[2].action \in {"SUBMISSION_DELETED", "SUBMISSIONS_DELETED_BY_EMAIL"}
  /\ \E s \in Slots : tasks[s].op = "cleanup" /\ tasks[s].pc = "done"

----------------------------------------------------------------------------
(* C22 *)

\* the records as the saves that created them stamped them, those of the
\* earlier run included
Created == Range(Seeded) \cup made

\* C22: every submission in the store is, field for field, the record that
\* the save which created it stamped; the calls add whole submissions and
\* remove whole submissions, and change none.
C22_SubmissionsImmutable ==
  \A x \in Range(Store) : \E y \in Created : y.id = x.id /\ x = y

\* a deleteByEmail has removed submissions from a store that keeps a
\* submission of the earlier run and one saved in this run
C22_Witness ==
  /\ \E s \in Slots :
       /\ Ended(tasks[s]) /\ tasks[s].op = "deleteByEmail"
       /\ tasks[s].ret.n > 0 /\ tasks[s].wrAt = seq
  /\ Range(Store) \cap made # {}
  /\ Range(Store) \cap Range(Seeded) # {}

----------------------------------------------------------------------------
(* C23 *)

\* the submissions of a list that deleteByEmail(e) removes, in the list's order
WouldRemove(e, list) ==
  LET d == deleteByEmail([IdleTask EXCEPT !.op = "deleteByEmail", !.email = e], list)
  IN IF d.pc = "open"
     THEN SelectSeq2(list, {i \in 1..Len(list) : list[i] \notin Range(d.out)})
     ELSE <<>>

\* C23: exportByEmail(e) returns one record for each submission that
\* deleteByEmail(e) would remove from the store it read and for no other,
\* in store order; a record carries id, email and the creation time and
\* neither ipHash nor expiresAt; the call never opens the store for writing.
C23_ExportMatchesDelete ==
  \A s \in Slots :
    LET t == tasks[s]
        gone == WouldRemove(t.email, t.snap)
    IN (Ended(t) /\ t.op = "exportByEmail" /\ ~t.ret.threw) =>
         /\ Len(t.ret.list) = Len(gone)
         /\ \A i \in 1..Len(gone) :
              /\ t.ret.list[i].id = gone[i].id
              /\ t.ret.list[i].email = gone[i].email
              /\ t.ret.list[i].submittedAt = gone[i].createdAt
              /\ DOMAIN t.ret.list[i] \cap {"ipHash", "expiresAt"} = {}
         /\ t.iv = 0 /\ t.wrAt < 0
         /\ seq = t.rdAt => Store = t.snap

\* an export has returned two submissions whose stored emails differ in case
C23_Witness ==
  \E s \in Slots :
    LET t == tasks[s]
    IN /\ Ended(t) /\ t.op = "exportByEmail" /\ ~t.ret.threw
       /\ Len(t.ret.list) = 2
       /\ t.ret.list[1].email # t.ret.list[2].email
       /\ Len(Store) > 2

----------------------------------------------------------------------------
(* C24 *)

----------------------------------------------------------------------------
(* C25 *)

\* C25 (as claimed): once a deleteSubmission has returned true or a
\* deleteByEmail has returned, no submission the call removed is in the
\* store, whatever calls run alongside.
C25_ErasurePermanent ==
  \A s \in Slots :
    LET t == tasks[s]
    IN (/\ Ended(t) /\ t.op \in {"deleteById", "deleteByEmail"}
        /\ ~t.ret.threw /\ Wrote(t)
        /\ Readable
        /\ \A b \in Slots : Wrote(tasks[b]) => tasks[b].wrAt = tasks[b].opAt + 1) =>
         Removed(t) \cap Range(Store) = {}

----------------------------------------------------------------------------
(* C26 *)

\* the contact route on a file system that refuses reads, writes or appends
InitContactIO ==
  /\ InitCommon
  /\ \E b \in BOOLEAN, r \in ReadErrors, w \in WriteErrors, a \in AppendErrors :
       env = [DefaultEnv EXCEPT !.autoResponse = b, !.readFile = r,
                                !.writeFile = w, !.appendFile = a]
  /\ file = Absent
  /\ fresh = [id |-> 1, iv |-> 1, token |-> 1]

SpecContactIO == InitContactIO /\ [][NextContact]_vars

\* C26: a contact request answered 200 has written its submission to the
\* store before the answer, and the store holds it as long as no other write
\* has touched the file; a request answered 400 or 500 has written nothing
\* and no submission of its own is in the store.
C26_AnswerFollowsWrite ==
  \A s \in Slots :
    LET t == tasks[s]
    IN (t.route = "contact" /\ t.pc = "done") =>
         /\ t.status \in {200, 400, 500}
         /\ t.status = 200 =>
              /\ Wrote(t) /\ t.sub # NoSub /\ t.sub \in Range(t.out)
              /\ (seq = t.wrAt /\ t.wrAt = t.opAt + 1) => t.sub \in Range(Store)
         /\ t.status \in {400, 500} =>
              /\ ~Wrote(t)
              /\ t.sub # NoSub => \A x \in Range(Store) : x.id # t.sub.id

\* a contact request that passed validation and whose write of the store
\* was refused has been answered 500
C26_Witness ==
  \E s \in Slots :
    LET t == tasks[s]
    IN /\ t.route = "contact" /\ t.pc = "done" /\ t.status = 500
       /\ t.sub # NoSub /\ WriteFailed(t)

----------------------------------------------------------------------------
(* C27 *)

\* addresses a data subject types into the form and, later, into a request
\* for deletion or export
dotted == <<"A", ".", "b", "@">> \o gmail
tagged == <<"a", "+", "b", "@">> \o gmail
SubjectEmails == {Ax, dotted, tagged}

InitSubject ==
  /\ InitCommon
  /\ env = DefaultEnv
  /\ file = Absent
  /\ fresh = [id |-> 1, iv |-> 1, token |-> 1]

NextSubject ==
  \E s \in Slots :
    \/ \E e \in SubjectEmails : Contact(s, [ValidBody EXCEPT !.email = Str(e)])
    \/ Steps(s)
    \/ Respond(s)
    \/ sendNotification(s)
    \/ CallDeleteByEmail(s, SubjectEmails)
    \/ CallExportByEmail(s, SubjectEmails)

SpecSubject == InitSubject /\ [][NextSubject]_vars

\* call b was made with the string request a carried as its email, and read
\* a store that held the submission request a had written
FollowsUp(a, b) ==
  /\ tasks[a].route = "contact" /\ Wrote(tasks[a])
  /\ Ended(tasks[b]) /\ ~tasks[b].ret.threw
  /\ tasks[b].email = tasks[a].body.email.v
  /\ tasks[b].rdAt >= tasks[a].wrAt
  /\ tasks[a].sub \in Range(tasks[b].snap)

\* C27 (as claimed): a deleteByEmail called with the string a contact
\* request was accepted with removes the submission that request stored,
\* and an exportByEmail called with it returns that submission.
C27_TypedEmailMatches ==
  \A a, b \in Slots :
    FollowsUp(a, b) =>
      /\ tasks[b].op = "deleteByEmail" => tasks[a].sub \in Removed(tasks[b])
      /\ tasks[b].op = "exportByEmail" =>
           \E i \in 1..Len(tasks[b].ret.list) : tasks[b].ret.list[i].id = tasks[a].sub.id

----------------------------------------------------------------------------
(* C28 *)

\* C28: a token whose logout was answered 200 is not in the session map,
\* then or later, and every request that names it afterwards, on any route
\* behind verifyToken, is answered 401 at once, without a call to the store.
C28_LogoutEndsSession ==
  /\ \A k \in Tokens : hist[k].state = "out" => validTokens[k] = NoSession
  /\ \A s \in Slots :
       LET t == tasks[s]
       IN /\ (t.route = "logout" /\ t.status = 200) =>
               \A k \in Named(t.hdr) : hist[k].state = "out"
          /\ (t.route \in AdminRoutes /\ t.gone) =>
               /\ t.pc = "done" /\ t.status = 401
               /\ t.op = "idle" /\ t.rdAt = -1

\* after a logout with token t1, a request for the store naming t1 has been
\* answered 401
C28_Witness ==
  \E s \in Slots :
    LET t == tasks[s]
    IN /\ t.route \in StoreRoutes /\ t.gone
       /\ t.hdr = Str(Bearer \o t1)
       /\ t.status = 401
       /\ hist[t1].state = "out"

----------------------------------------------------------------------------
(* C29 *)

\* the call has read the store and found nothing to remove
RemovesNothing(t) ==
  /\ t.op \notin {"idle", "save"} /\ t.route = "none"
  /\ t.rdAt >= 0 /\ ~t.ret.threw
  /\ \/ t.op \in {"getAll", "exportByEmail"}
     \/ t.op \in {"deleteById", "deleteByEmail", "cleanup"} /\ t.pc = "done" /\ t.ret.n = 0

\* C29: a getAllSubmissions, an exportByEmail, a deleteSubmission of an
\* unknown id, a deleteByEmail without a match and a cleanup without an
\* expired submission draw no nonce and never open the store for writing;
\* and whenever the file changes, the step is one of a call whose list
\* differs from the list it read.
C29_NoRemovalNoWrite ==
  [][/\ \A s \in Slots :
          RemovesNothing(tasks'[s]) =>
            tasks'[s].iv = 0 /\ tasks'[s].opAt = -1 /\ tasks'[s].wrAt = -1
     /\ file' # file =>
          \E s \in Slots : /\ tasks[s].pc \in {"open", "write"}
                           /\ tasks[s].out # tasks[s].snap
                           /\ tasks'[s] # tasks[s]]_vars

\* a cleanup has run to its end on a store of submissions none of which had
\* expired, and the file has seen no event since the call read it
C29_Witness ==
  \E s \in Slots :
    LET t == tasks[s]
    IN /\ RemovesNothing(t) /\ t.op = "cleanup"
       /\ t.saw = "valid" /\ t.snap # <<>>
       /\ seq = t.rdAt /\ Store = t.snap

----------------------------------------------------------------------------
(* services/emailService.js: generateShortId *)

HexSeq == DigitSeq \o <<"a", "b", "c", "d", "e", "f">>

HexValue(c) == (CHOOSE i \in 1..Len(HexSeq) : HexSeq[i] = c) - 1

ShortIdRange == 90000
ShortIdBase == 10000

RECURSIVE HexMod(_, _)
\* parseInt(str, 16) % m for a string of hex digits; the remainder is carried
\* through the digits, the value itself (up to 16^10) being past the
\* integers of the model checker
HexMod(str, m) ==
  IF str = <<>> THEN 0
  ELSE (HexMod(SubSeq(str, 1, Len(str) - 1), m) * 16 + HexValue(str[Len(str)])) % m

RECURSIVE toString(_)
\* Number.prototype.toString of a natural number
toString(n) ==
  IF n < 10 THEN <<DigitSeq[n + 1]>>
  ELSE toString(n \div 10) \o <<DigitSeq[(n % 10) + 1]>>

\* generateShortId without the offset that makes five digits of it
generateShortIdNoBase(uuid) ==
  LET cleanUuid == SelectSeq(uuid, LAMBDA c : c # "-")
      first == SubSeq(cleanUuid, 1, IF Len(cleanUuid) < 10 THEN Len(cleanUuid) ELSE 10)
  IN toString(HexMod(first, ShortIdRange))

generateShortId(uuid) ==
  LET cleanUuid == SelectSeq(uuid, LAMBDA c : c # "-")
      first == SubSeq(cleanUuid, 1, IF Len(cleanUuid) < 10 THEN Len(cleanUuid) ELSE 10)
      shortId == HexMod(first, ShortIdRange) + ShortIdBase
  IN toString(shortId)

RECURSIVE Hex(_, _)
\* n in hex digits, to the given width
Hex(n, width) ==
  IF width = 0 THEN <<>>
  ELSE Hex(n \div 16, width - 1) \o <<HexSeq[(n % 16) + 1]>>

\* a version-4 uuid whose first ten hex digits are the given ones
Uuid(first) ==
  SubSeq(first, 1, 8) \o <<"-">> \o SubSeq(first, 9, 10)
    \o <<"0", "0", "-", "4", "0", "0", "0", "-", "8", "0", "0", "0", "-">>
    \o [i \in 1..12 |-> "0"]

\* submission ids: small and large leading digits, the ends of the range of
\* the reduction and values one range apart
Uuids ==
  {Uuid(Hex(n, 10)) :
     n \in {0, 1, 9, 10, 15, 16, 255, 9999, 79999, 89999, 90000, 90001, 99999,
            180000, 1000000, 268435456, 2147483647}}
  \cup {Uuid([i \in 1..10 |-> "f"]),
        Uuid([i \in 1..8 |-> "f"] \o <<"0", "0">>)}

\* a response or a mail showing the short id of a submission id
ShowShortId(s) ==
  /\ Free(s)
  /\ \E u \in Uuids :
       tasks' = [tasks EXCEPT ![s] =
                   [IdleTask EXCEPT !.route = "shortId", !.pc = "done",
                                    !.uuid = u, !.shortId = generateShortId(u)]]
  /\ UNCHANGED <<env, made, file, audit, now, validTokens, hist, fresh, seq, used>>

InitShortId ==
  /\ InitCommon
  /\ env = DefaultEnv
  /\ file = Absent
  /\ fresh = [id |-> 1, iv |-> 1, token |-> 1]

NextShortId == \E s \in Slots : ShowShortId(s)

SpecShortId == InitShortId /\ [][NextShortId]_vars

RECURSIVE DecimalValue(_)
\* the number a string of decimal digits writes
DecimalValue(str) ==
  IF str = <<>> THEN 0
  ELSE DecimalValue(SubSeq(str, 1, Len(str) - 1)) * 10 + DigitValue(str[Len(str)])

----------------------------------------------------------------------------
(* C30 *)

\* C30: the short id shown for a submission id is five decimal digits that
\* write a number from 10000 to 99999, and the same id is always shown the
\* same short id.
C30_ShortIdFiveDigits ==
  \A s \in Slots :
    LET t == tasks[s]
    IN t.route = "shortId" =>
         /\ Len(t.shortId) = 5
         /\ \A i \in 1..5 : IsDigit(t.shortId[i])
         /\ DecimalValue(t.shortId) \in ShortIdBase..(ShortIdBase + ShortIdRange - 1)
         /\ t.shortId = generateShortId(t.uuid)
         /\ \A r \in Slots :
              (tasks[r].route = "shortId" /\ tasks[r].uuid = t.uuid) =>
                tasks[r].shortId = t.shortId

\* two different submission ids are shown the same short id
C30_Witness ==
  \E a, b \in Slots :
    /\ tasks[a].route = "shortId" /\ tasks[b].route = "shortId"
    /\ tasks[a].uuid # tasks[b].uuid
    /\ tasks[a].shortId = tasks[b].shortId

====
